---- MODULE Spec2Model ----
(***************************************************************************)
(* A model of src/app.py, the XER schedule narrative generator: the        *)
(* duration and lag formatters, the relationship indexer, the network      *)
(* analyzer, the anomaly detector, the activity narrative renderer and the *)
(* semantic / Q&A context builders, and the report-generation pass that   *)
(* the script runs on an upload, with its temporary file.                  *)
(*                                                                         *)
(* The functions of app.py are pure functions of the decoded tables. The   *)
(* state is the table set of one upload (tables), the function of app.py   *)
(* that was called last with its arguments (call) and what that call       *)
(* produced (ret): either a returned value or the exception it raised.     *)
(*                                                                         *)
(* Python values.  A field value is a tagged record: [num |-> n] is a      *)
(* number (a count of hours, an integer here), [str |-> s] is a string and *)
(* NoneVal is None.  A decoded record is a function from field names to    *)
(* values; a field that is missing from the record is missing from its     *)
(* DOMAIN, and dict.get(key, default) is Get.  Activity and resource       *)
(* identifiers are only ever compared for equality and are plain integers. *)
(* An outcome is Ok(v) (the function returned v) or Raise(e) (it raised    *)
(* the exception e).                                                       *)
(***************************************************************************)
EXTENDS Integers, Sequences, FiniteSets, TLC

VARIABLES tables, call, ret

vars == <<tables, call, ret>>

(***************************************************************************)
(* Bounds of the model.                                                    *)
(***************************************************************************)
MaxHours == 40
MaxTasks == 2
MaxRels == 2
MaxCtxTasks == 2
MaxRsrc == 6

(***************************************************************************)
(* Python values and outcomes.                                             *)
(***************************************************************************)
Num(n) == [num |-> n]
Str(s) == [str |-> s]
NoneVal == [none |-> TRUE]
IsNum(v) == DOMAIN v = {"num"}
IsStr(v) == DOMAIN v = {"str"}

Ok(v) == [val |-> v]
Raise(e) == [exc |-> e]
IsOk(r) == DOMAIN r = {"val"}
IsRaise(r) == DOMAIN r = {"exc"}

Get(rec, key, default) == IF key \in DOMAIN rec THEN rec[key] ELSE default

\* The numerals that occur as strings in the inputs, with the number float()
\* reads from each; every other string makes float() raise ValueError.
Numerals == [s \in {"16", "-16", "0", "4"} |->
               CASE s = "16" -> 16 [] s = "-16" -> -16 [] s = "0" -> 0 [] s = "4" -> 4]

\* float(v): the number, or the exception float() raises.
Float(v) ==
  IF IsNum(v) THEN Ok(v.num)
  ELSE IF IsStr(v)
       THEN IF v.str \in DOMAIN Numerals THEN Ok(Numerals[v.str])
            ELSE Raise("ValueError")
       ELSE Raise("TypeError")

\* f"{n / d:.1f}" for integers n and d > 0: the format rounds the quotient to
\* one decimal.  A tie (the quotient ends in 5 at the second decimal and has no
\* further digits) is a dyadic rational, exact in binary floating point, and
\* goes to the even digit.
Fmt1(n, d) ==
  LET a == IF n < 0 THEN -n ELSE n
      q == (10 * a) \div d
      r == (10 * a) % d
      t == IF 2 * r > d THEN q + 1
           ELSE IF 2 * r < d THEN q
           ELSE IF q % 2 = 0 THEN q ELSE q + 1
  IN  (IF n < 0 THEN "-" ELSE "") \o ToString(t \div 10) \o "." \o ToString(t % 10)

(***************************************************************************)
(* The duration and lag formatters.                                        *)
(***************************************************************************)
HoursPerDay == 8

format_duration(duration_hours) ==
  LET f == Float(duration_hours)
  IN  IF IsRaise(f) THEN "unknown duration"
      ELSE IF f.val >= HoursPerDay      \* days = hours / 8; days >= 1
           THEN Fmt1(f.val, HoursPerDay) \o " days"
           ELSE Fmt1(f.val, 1) \o " hours"

Abs(n) == IF n < 0 THEN -n ELSE n

\* format_lag with the sign test reversed: a delay is worded as a negative lag.
format_lag_swapped(lag_hours) ==
  LET f == Float(lag_hours)
  IN  IF IsRaise(f) THEN "unknown lag"
      ELSE IF f.val = 0 THEN "no lag"
      ELSE IF f.val > 0 THEN format_duration(Num(Abs(f.val))) \o " negative lag"
      ELSE format_duration(Num(f.val)) \o " lag"

\* float(lag_hours), then "no lag", the magnitude "... negative lag", or "... lag".
format_lag(lag_hours) ==
  LET f == Float(lag_hours)
  IN  IF IsRaise(f) THEN "unknown lag"
      ELSE IF f.val = 0 THEN "no lag"
      ELSE IF f.val < 0 THEN format_duration(Num(Abs(f.val))) \o " negative lag"
      ELSE format_duration(Num(f.val)) \o " lag"

(***************************************************************************)
(* The code interpreters.                                                  *)
(***************************************************************************)
interpret_constraint(cstr_type) ==
  CASE cstr_type = "CS_MSO" -> "Must Start On"
    [] cstr_type = "CS_MSOB" -> "Must Start On or Before"
    [] cstr_type = "CS_MSOA" -> "Must Start On or After"
    [] cstr_type = "CS_MEO" -> "Must End On"
    [] cstr_type = "CS_MEOB" -> "Must End On or Before"
    [] cstr_type = "CS_MEOA" -> "Must End On or After"
    [] cstr_type = "CS_ALAP" -> "As Late As Possible"
    [] cstr_type = "CS_ASAP" -> "As Soon As Possible"
    [] OTHER -> "No constraint"

interpret_task_type(task_type) ==
  CASE task_type = "TT_Task" -> "Normal Task"
    [] task_type = "TT_Rsrc" -> "Resource Dependent"
    [] task_type = "TT_LOE" -> "Level of Effort"
    [] task_type = "TT_Mile" -> "Milestone"
    [] task_type = "TT_WBS" -> "WBS Summary"
    [] task_type = "TT_FinMile" -> "Financial Milestone"
    [] OTHER -> "Unknown type"

interpret_relationship_type(pred_type) ==
  CASE pred_type = "PR_FS" -> "Finish to Start"
    [] pred_type = "PR_SS" -> "Start to Start"
    [] pred_type = "PR_FF" -> "Finish to Finish"
    [] pred_type = "PR_SF" -> "Start to Finish"
    [] OTHER -> "Unknown relationship"

(***************************************************************************)
(* The relationship indexer, analyze_relationships.                        *)
(***************************************************************************)
\* task_lookup = {task.get('task_id'): task for task in task_data}: of two
\* activities with one id, the later one stays in the dictionary.
TaskLookup(task_data) ==
  LET ids == {Get(task_data[i], "task_id", NoneVal) : i \in DOMAIN task_data}
      last(id) == CHOOSE i \in DOMAIN task_data :
                    /\ Get(task_data[i], "task_id", NoneVal) = id
                    /\ \A j \in DOMAIN task_data :
                         Get(task_data[j], "task_id", NoneVal) = id => j <= i
  IN  [id \in ids |-> task_data[last(id)]]

\* task_lookup.get(id, {})
LookupTask(task_lookup, id) ==
  IF id \in DOMAIN task_lookup THEN task_lookup[id] ELSE << >>

\* rel.get('task_id') == task_id: rel is one of task_id's predecessor relationships
IsPredRel(rel, task_id) == Get(rel, "task_id", NoneVal) = task_id

\* IsSuccRel as an `elif` of the predecessor test: a relationship from the
\* activity to itself is listed among its predecessors only.
IsSuccRel_elif(rel, task_id) ==
  /\ ~IsPredRel(rel, task_id)
  /\ Get(rel, "pred_task_id", NoneVal) = task_id

\* rel.get('pred_task_id') == task_id: rel is one of task_id's successor relationships
IsSuccRel(rel, task_id) == Get(rel, "pred_task_id", NoneVal) = task_id

\* RelEntry without the placeholder name of an endpoint that is not looked up.
RelEntry_noplaceholder(rel, task_lookup, other) ==
  LET task == LookupTask(task_lookup, Get(rel, other, NoneVal))
  IN  [name |-> Get(task, "task_name", ""),
       code |-> Get(task, "task_code", ""),
       type |-> Get(rel, "pred_type", ""),
       lag  |-> Get(rel, "lag_hr_cnt", Num(0))]

\* The entry appended for rel, whose other endpoint is the field `other`.
RelEntry(rel, task_lookup, other) ==
  LET task == LookupTask(task_lookup, Get(rel, other, NoneVal))
  IN  [name |-> Get(task, "task_name", "Unknown Task"),
       code |-> Get(task, "task_code", ""),
       type |-> Get(rel, "pred_type", ""),
       lag  |-> Get(rel, "lag_hr_cnt", Num(0))]

RECURSIVE rel_scan(_, _, _, _, _, _)
rel_scan(i, task_id, taskpred_data, task_lookup, predecessors, successors) ==
  IF i > Len(taskpred_data) THEN <<predecessors, successors>>
  ELSE LET rel == taskpred_data[i]
           preds == IF IsPredRel(rel, task_id)
                    THEN Append(predecessors, RelEntry(rel, task_lookup, "pred_task_id"))
                    ELSE predecessors
           succs == IF IsSuccRel(rel, task_id)
                    THEN Append(successors, RelEntry(rel, task_lookup, "task_id"))
                    ELSE successors
       IN  rel_scan(i + 1, task_id, taskpred_data, task_lookup, preds, succs)

\* Returns <<predecessors, successors>>.
analyze_relationships(task_id, taskpred_data, task_lookup) ==
  rel_scan(1, task_id, taskpred_data, task_lookup, << >>, << >>)

(***************************************************************************)
(* The network analyzer, analyze_network_logic.                            *)
(***************************************************************************)
HighFloatHours == 80

InitialMetrics(task_data) ==
  [total_activities |-> Len(task_data),
   activities_no_pred |-> 0,
   activities_no_succ |-> 0,
   activities_single_pred |-> 0,
   activities_single_succ |-> 0,
   activities_multiple_pred |-> 0,
   activities_multiple_succ |-> 0,
   relationships_with_lag |-> 0,
   relationships_with_negative_lag |-> 0,
   ss_relationships |-> 0,
   ff_relationships |-> 0,
   sf_relationships |-> 0,
   high_float_activities |-> 0,
   negative_float_activities |-> 0]

\* Bump forgetting the count so far: a second relationship of an id counts as
\* its first.
Bump_restart(count, id) ==
  [k \in DOMAIN count \cup {id} |-> IF k = id THEN 1 ELSE count[k]]

\* count[id] = count.get(id, 0) + 1
Bump(count, id) ==
  IF id \in DOMAIN count THEN [count EXCEPT ![id] = @ + 1]
  ELSE [k \in DOMAIN count \cup {id} |-> IF k = id THEN 1 ELSE count[k]]

Inc(metrics, key, cond) ==
  IF cond THEN [metrics EXCEPT ![key] = @ + 1] ELSE metrics

\* One turn of the loop over the relationships: the kind and lag tallies.
RelTally(metrics, rel_type, lag) ==
  LET m1 == IF rel_type = "PR_SS" THEN Inc(metrics, "ss_relationships", TRUE)
            ELSE IF rel_type = "PR_FF" THEN Inc(metrics, "ff_relationships", TRUE)
            ELSE IF rel_type = "PR_SF" THEN Inc(metrics, "sf_relationships", TRUE)
            ELSE metrics
      m2 == Inc(m1, "relationships_with_lag", lag # 0)
  IN  Inc(m2, "relationships_with_negative_lag", lag < 0)

\* The loop over the relationships; st = [metrics, pred_count, succ_count].
\* float() of a lag that is no number raises out of the function.
RECURSIVE rel_pass(_, _, _)
rel_pass(taskpred_data, i, st) ==
  IF i > Len(taskpred_data) THEN Ok(st)
  ELSE LET rel == taskpred_data[i]
           task_id == Get(rel, "task_id", NoneVal)
           pred_id == Get(rel, "pred_task_id", NoneVal)
           lag == Float(Get(rel, "lag_hr_cnt", Num(0)))
           rel_type == Get(rel, "pred_type", "")
       IN  IF IsRaise(lag) THEN lag
           ELSE rel_pass(taskpred_data, i + 1,
                  [metrics |-> RelTally(st.metrics, rel_type, lag.val),
                   pred_count |-> Bump(st.pred_count, task_id),
                   succ_count |-> Bump(st.succ_count, pred_id)])

\* PredClass counting an activity of two predecessors as one of a single one.
PredClass_miscount(count, task_id) ==
  IF task_id \notin DOMAIN count THEN "activities_no_pred"
  ELSE IF count[task_id] = 1 THEN "activities_single_pred"
  ELSE IF count[task_id] = 2 THEN "activities_single_pred"
  ELSE "activities_multiple_pred"

\* The predecessor class an activity is counted in.
PredClass(count, task_id) ==
  IF task_id \notin DOMAIN count THEN "activities_no_pred"
  ELSE IF count[task_id] = 1 THEN "activities_single_pred"
  ELSE "activities_multiple_pred"

\* The successor class an activity is counted in.
SuccClass(count, task_id) ==
  IF task_id \notin DOMAIN count THEN "activities_no_succ"
  ELSE IF count[task_id] = 1 THEN "activities_single_succ"
  ELSE "activities_multiple_succ"

\* FloatTally counting a total float of zero as negative.
FloatTally_nonstrict(metrics, total_float) ==
  Inc(Inc(metrics, "high_float_activities", total_float > HighFloatHours),
      "negative_float_activities", total_float <= 0)

\* The float health counts of one activity.
FloatTally(metrics, total_float) ==
  Inc(Inc(metrics, "high_float_activities", total_float > HighFloatHours),
      "negative_float_activities", total_float < 0)

\* The loop over the activities.  float() of a total float that is no number
\* raises out of the function.
RECURSIVE task_pass(_, _, _, _, _)
task_pass(task_data, i, metrics, pred_count, succ_count) ==
  IF i > Len(task_data) THEN Ok(metrics)
  ELSE LET task == task_data[i]
           task_id == Get(task, "task_id", NoneVal)
           total_float == Float(Get(task, "total_float_hr_cnt", Num(0)))
       IN  IF IsRaise(total_float) THEN total_float
           ELSE task_pass(task_data, i + 1,
                  FloatTally(
                    Inc(Inc(metrics, PredClass(pred_count, task_id), TRUE),
                        SuccClass(succ_count, task_id), TRUE),
                    total_float.val),
                  pred_count, succ_count)

analyze_network_logic(task_data, taskpred_data) ==
  LET rels == rel_pass(taskpred_data, 1,
                [metrics |-> InitialMetrics(task_data),
                 pred_count |-> << >>, succ_count |-> << >>])
  IN  IF IsRaise(rels) THEN rels
      ELSE task_pass(task_data, 1, rels.val.metrics,
                     rels.val.pred_count, rels.val.succ_count)

(***************************************************************************)
(* The anomaly detector, generate_relationship_warnings.                   *)
(***************************************************************************)
\* The loop over the predecessors: one warning for each negative lag.
\* float() of a lag that is no number raises out of the function.
RECURSIVE negative_lag_pass(_, _, _)
negative_lag_pass(predecessors, i, warnings) ==
  IF i > Len(predecessors) THEN Ok(warnings)
  ELSE LET pred == predecessors[i]
           lag == Float(Get(pred, "lag", Num(0)))
       IN  IF IsRaise(lag) THEN lag
           ELSE negative_lag_pass(predecessors, i + 1,
                  IF lag.val < 0
                  THEN Append(warnings,
                         "Warning: Negative lag on relationship with " \o pred.name)
                  ELSE warnings)

IsSF(p) == p.type = "PR_SF"

\* The Start-to-Finish note, appended when sf_rels is not empty.
SFNote(warnings, predecessors) ==
  LET sf_rels == SelectSeq(predecessors, IsSF)
  IN  IF sf_rels # << >>
      THEN Append(warnings, "Note: Activity has " \o ToString(Len(sf_rels))
                    \o " Start-to-Finish relationship(s), which are unusual")
      ELSE warnings

\* FloatCheck warning of an empty list whatever the total float.
FloatCheck_nofloat(warnings, others, total_float, text) ==
  IF others # << >> THEN Ok(warnings)
  ELSE LET f == Float(total_float)
       IN  IF IsRaise(f) THEN f
           ELSE Ok(Append(warnings, text))

\* `not others and float(total_float) > 0`, then the warning: total_float is
\* read, and float() may raise, only when the list is empty.
FloatCheck(warnings, others, total_float, text) ==
  IF others # << >> THEN Ok(warnings)
  ELSE LET f == Float(total_float)
       IN  IF IsRaise(f) THEN f
           ELSE IF f.val > 0 THEN Ok(Append(warnings, text))
           ELSE Ok(warnings)

generate_relationship_warnings(predecessors, successors, total_float) ==
  LET neg == negative_lag_pass(predecessors, 1, << >>)
  IN  IF IsRaise(neg) THEN neg
      ELSE LET w2 == SFNote(neg.val, predecessors)
               w3 == FloatCheck(w2, predecessors, total_float,
                       "Warning: Activity has no predecessors but has positive float")
           IN  IF IsRaise(w3) THEN w3
               ELSE FloatCheck(w3.val, successors, total_float,
                       "Warning: Activity has no successors but has positive float")

(***************************************************************************)
(* The activity narrative renderer, generate_activity_narrative.  The      *)
(* returned text is modelled by its lines: the lines of the network        *)
(* summary, and for each activity the lines of its block (the blocks are   *)
(* joined by a separator line in the text).  The timeline lines, which     *)
(* copy date fields into the text, are left out.                           *)
(***************************************************************************)
StatusText(status_code) ==
  IF status_code = "TK_Complete" THEN "completed"
  ELSE IF status_code = "TK_Active" THEN "in progress"
  ELSE "not started"

NetworkSummary(m) ==
  << "Schedule Network Analysis:",
     "Total Activities: " \o ToString(m.total_activities),
     "- Activities without predecessors: " \o ToString(m.activities_no_pred),
     "- Activities without successors: " \o ToString(m.activities_no_succ),
     "- Activities with single predecessor: " \o ToString(m.activities_single_pred),
     "- Activities with multiple predecessors: " \o ToString(m.activities_multiple_pred),
     "- Activities with single successor: " \o ToString(m.activities_single_succ),
     "- Activities with multiple successors: " \o ToString(m.activities_multiple_succ),
     "- Start-to-Start relationships: " \o ToString(m.ss_relationships),
     "- Finish-to-Finish relationships: " \o ToString(m.ff_relationships),
     "- Start-to-Finish relationships: " \o ToString(m.sf_relationships),
     "- Relationships with lag: " \o ToString(m.relationships_with_lag),
     "- Relationships with negative lag: " \o ToString(m.relationships_with_negative_lag),
     "- Activities with high float (>10 days): " \o ToString(m.high_float_activities),
     "- Activities with negative float: " \o ToString(m.negative_float_activities) >>

RelLine(e) ==
  "- " \o e.name \o " (ID: " \o e.code \o ") - "
       \o interpret_relationship_type(e.type) \o " with " \o format_lag(e.lag)

RelLines(title, entries) ==
  IF entries = << >> THEN << >>
  ELSE <<title>> \o [i \in 1..Len(entries) |-> RelLine(entries[i])]

StartNote == "This is a Start activity with no predecessors."
FinishNote == "This is a Finish activity with no successors."

\* The block of one activity: its lines, or the exception that
\* generate_relationship_warnings raised.
ActivityBlock(task, taskpred_data, task_lookup) ==
  LET task_id == Get(task, "task_id", NoneVal)
      rels == analyze_relationships(task_id, taskpred_data, task_lookup)
      predecessors == rels[1]
      successors == rels[2]
      head ==
        << "Activity '" \o Get(task, "task_name", "") \o "' (ID: "
              \o Get(task, "task_code", "") \o ")",
           "Type: " \o interpret_task_type(Get(task, "task_type", "")),
           "Status: " \o StatusText(Get(task, "status_code", "")),
           "- Original Duration: " \o format_duration(Get(task, "target_drtn_hr_cnt", Num(0))),
           "- Remaining Duration: " \o format_duration(Get(task, "remain_drtn_hr_cnt", Num(0))),
           "- Total Float: " \o format_duration(Get(task, "total_float_hr_cnt", Num(0))),
           "- Free Float: " \o format_duration(Get(task, "free_float_hr_cnt", Num(0))),
           "- Constraint: " \o interpret_constraint(Get(task, "cstr_type", "")) >>
      body ==
        head
        \o RelLines("Predecessor Relationships:", predecessors)
        \o RelLines("Successor Relationships:", successors)
        \o (IF predecessors = << >> THEN <<StartNote>> ELSE << >>)
        \o (IF successors = << >> THEN <<FinishNote>> ELSE << >>)
        \o << "Total Relationships: " \o ToString(Len(predecessors) + Len(successors))
                \o " (" \o ToString(Len(predecessors)) \o " predecessors, "
                \o ToString(Len(successors)) \o " successors)" >>
      warnings == generate_relationship_warnings(predecessors, successors,
                    Get(task, "total_float_hr_cnt", Num(0)))
  IN  IF IsRaise(warnings) THEN warnings
      ELSE Ok(body \o (IF warnings.val # << >>
                       THEN <<"Logic Analysis:">>
                              \o [i \in 1..Len(warnings.val) |-> "- " \o warnings.val[i]]
                       ELSE << >>))

\* The loop over the activities: the first block that raises ends it.
RECURSIVE narrative_pass(_, _, _, _, _)
narrative_pass(task_data, i, taskpred_data, task_lookup, narratives) ==
  IF i > Len(task_data) THEN Ok(narratives)
  ELSE LET block == ActivityBlock(task_data[i], taskpred_data, task_lookup)
       IN  IF IsRaise(block) THEN block
           ELSE narrative_pass(task_data, i + 1, taskpred_data, task_lookup,
                               Append(narratives, block.val))

generate_activity_narrative(task_data, tbls) ==
  LET task_lookup == TaskLookup(task_data)
      taskpred_data == IF "TASKPRED" \in DOMAIN tbls THEN tbls["TASKPRED"] ELSE << >>
      network_metrics == analyze_network_logic(task_data, taskpred_data)
  IN  IF IsRaise(network_metrics) THEN network_metrics
      ELSE LET blocks == narrative_pass(task_data, 1, taskpred_data, task_lookup, << >>)
           IN  IF IsRaise(blocks) THEN blocks
               ELSE Ok([summary |-> NetworkSummary(network_metrics.val),
                        blocks |-> blocks.val])

(***************************************************************************)
(* The semantic and Q&A context builders.                                  *)
(***************************************************************************)
CriticalSentinel == 999999
KeyResourceSample == 5

\* tables[name].entries(), or KeyError when the table is missing.
Entries(tbls, name) ==
  IF name \in DOMAIN tbls THEN Ok(tbls[name]) ELSE Raise("KeyError")

\* tables['PROJECT'].entries()[0]
FirstProject(tbls) ==
  LET e == Entries(tbls, "PROJECT")
  IN  IF IsRaise(e) THEN e
      ELSE IF e.val = << >> THEN Raise("IndexError") ELSE Ok(e.val[1])

\* IsCritical reading an absent total float as zero.
IsCritical_zerodefault(task) ==
  LET f == Float(Get(task, "total_float_hr_cnt", Num(0)))
  IN  IF IsRaise(f) THEN f ELSE Ok(f.val <= 0)

\* float(task.get('total_float_hr_cnt', 999999)) <= 0, or what float() raises
IsCritical(task) ==
  LET f == Float(Get(task, "total_float_hr_cnt", Num(CriticalSentinel)))
  IN  IF IsRaise(f) THEN f ELSE Ok(f.val <= 0)

\* [task for task in tasks if float(...) <= 0]: the critical activities in
\* order, or the exception of the first total float that is no number.
RECURSIVE critical_pass(_, _, _)
critical_pass(tasks, i, acc) ==
  IF i > Len(tasks) THEN Ok(acc)
  ELSE LET c == IsCritical(tasks[i])
       IN  IF IsRaise(c) THEN c
           ELSE critical_pass(tasks, i + 1,
                              IF c.val THEN Append(acc, tasks[i]) ELSE acc)

\* sum(float(t.get('total_float_hr_cnt', 0)) for t in tasks)
RECURSIVE float_sum(_, _, _)
float_sum(tasks, i, acc) ==
  IF i > Len(tasks) THEN Ok(acc)
  ELSE LET f == Float(Get(tasks[i], "total_float_hr_cnt", Num(0)))
       IN  IF IsRaise(f) THEN f ELSE float_sum(tasks, i + 1, acc + f.val)

\* f"{n / d:.1f}": the division raises when d is 0.
Ratio1(n, d) ==
  IF d = 0 THEN Raise("ZeroDivisionError") ELSE Ok(Fmt1(n, d))

IsMilestone(task) == Get(task, "task_type", NoneVal) = "TT_Mile"
IsComplete(task) == Get(task, "status_code", NoneVal) = "TK_Complete"
IsDeliverable(w) == Get(w, "proj_node_flag", NoneVal) # "Y"

Map(seq, F(_)) == [i \in 1..Len(seq) |-> F(seq[i])]

PhaseOf(w) == [name |-> Get(w, "wbs_name", NoneVal), code |-> Get(w, "wbs_short_name", NoneVal)]
MilestoneOf(m) == [name |-> Get(m, "task_name", NoneVal), date |-> Get(m, "target_end_date", NoneVal)]
WbsNameOf(w) == Get(w, "wbs_name", NoneVal)
RiskOf(t) == [activity |-> Get(t, "task_name", NoneVal), risk |-> "Critical"]
DependencyOf(t) == [from |-> Get(t, "task_name", NoneVal), type |-> "Critical"]
TaskNameOf(t) == Get(t, "task_name", NoneVal)
RsrcNameOf(r) == Get(r, "rsrc_name", NoneVal)

\* The execution_strategy block, added when TASKRSRC is among the tables.
WithExecutionStrategy(context, tbls, critical_tasks) ==
  IF "TASKRSRC" \in DOMAIN tbls
  THEN LET resources == tbls["TASKRSRC"]
       IN  [k \in DOMAIN context \cup {"execution_strategy"} |->
              IF k = "execution_strategy"
              THEN [phase_sequence |-> "Sequential execution through defined phases",
                    resource_strategy |-> "Schedule contains " \o ToString(Len(resources))
                                             \o " resource assignments",
                    key_dependencies |-> Map(critical_tasks, DependencyOf)]
              ELSE context[k]]
  ELSE context

generate_semantic_schedule_context(tbls) ==
  LET project == FirstProject(tbls)
      wbs == Entries(tbls, "PROJWBS")
      tasks == Entries(tbls, "TASK")
  IN  IF IsRaise(project) THEN project
      ELSE IF IsRaise(wbs) THEN wbs
      ELSE IF IsRaise(tasks) THEN tasks
      ELSE
      LET milestones == SelectSeq(tasks.val, IsMilestone)
          critical_tasks == critical_pass(tasks.val, 1, << >>)
      IN  IF IsRaise(critical_tasks) THEN critical_tasks
          ELSE
          LET total == float_sum(tasks.val, 1, 0)
              average == IF IsRaise(total) THEN total
                         ELSE Ratio1(total.val, Len(tasks.val))
          IN  IF IsRaise(average) THEN average
              ELSE Ok(WithExecutionStrategy(
                [project_identity |->
                   [name |-> Get(project.val, "proj_short_name", ""),
                    purpose |-> "Schedule exported from P6 version "
                                   \o Get(project.val, "export_version", ""),
                    key_dates |->
                      [planned_start |-> Get(project.val, "plan_start_date", NoneVal),
                       planned_finish |-> Get(project.val, "plan_end_date", NoneVal),
                       current_finish |-> Get(project.val, "scd_end_date", NoneVal),
                       data_date |-> Get(project.val, "last_recalc_date", NoneVal)]],
                 schedule_structure |->
                   [phases |-> Map(wbs.val, PhaseOf),
                    major_milestones |-> Map(milestones, MilestoneOf),
                    key_deliverables |-> Map(SelectSeq(wbs.val, IsDeliverable), WbsNameOf)],
                 timing_analysis |->
                   [critical_path_description |->
                      "The schedule contains " \o ToString(Len(critical_tasks.val))
                         \o " critical activities",
                    float_patterns |->
                      "Average float across activities: " \o average.val \o " hours",
                    schedule_risks |-> Map(critical_tasks.val, RiskOf)]],
                tbls, critical_tasks.val))

\* resources[:5]
Head5(resources) == SubSeq(resources, 1,
                      IF Len(resources) < KeyResourceSample THEN Len(resources)
                      ELSE KeyResourceSample)

\* The resource_questions block, added when TASKRSRC is among the tables.
WithResourceQuestions(qa_pairs, tbls) ==
  IF "TASKRSRC" \in DOMAIN tbls
  THEN LET resources == tbls["TASKRSRC"]
           ids == {Get(resources[i], "rsrc_id", NoneVal) : i \in DOMAIN resources}
       IN  [k \in DOMAIN qa_pairs \cup {"resource_questions"} |->
              IF k = "resource_questions"
              THEN [what_are_key_resources |-> Map(Head5(resources), RsrcNameOf),
                    how_many_resources |-> "Schedule contains "
                        \o ToString(Cardinality(ids)) \o " unique resources"]
              ELSE qa_pairs[k]]
  ELSE qa_pairs

generate_qa_context(tbls) ==
  LET project == FirstProject(tbls)
      tasks == Entries(tbls, "TASK")
  IN  IF IsRaise(project) THEN project
      ELSE IF IsRaise(tasks) THEN tasks
      ELSE
      LET total_tasks == Len(tasks.val)
          critical_tasks == critical_pass(tasks.val, 1, << >>)
          completed_tasks == SelectSeq(tasks.val, IsComplete)
      IN  IF IsRaise(critical_tasks) THEN critical_tasks
          ELSE
          LET progress == Ratio1(100 * Len(completed_tasks), total_tasks)
          IN  IF IsRaise(progress) THEN progress
              ELSE Ok(WithResourceQuestions(
                [timing_questions |->
                   [when_will_project_finish |->
                      "Based on current schedule, the project will finish on "
                         \o Get(project.val, "scd_end_date", "None"),
                    what_is_driving_completion |->
                      "There are " \o ToString(Len(critical_tasks.val))
                         \o " critical activities driving project completion",
                    which_activities_are_critical |-> Map(critical_tasks.val, TaskNameOf)],
                 progress_questions |->
                   [what_is_overall_progress |-> progress.val \o "% of activities are complete",
                    how_many_activities_remain |->
                      ToString(total_tasks - Len(completed_tasks))
                         \o " activities remain to be completed"]],
                tbls))

(***************************************************************************)
(* The inputs.  One upload decodes to one table set; the sets below are    *)
(* the table sets the three specifications start from.                     *)
(***************************************************************************)
ProjectRow ==
  [proj_short_name |-> "DEMO", export_version |-> "19.12",
   plan_start_date |-> "2026-01-05 08:00", plan_end_date |-> "2026-06-30 17:00",
   scd_end_date |-> "2026-07-15 17:00", last_recalc_date |-> "2026-02-01 00:00"]

WbsRows ==
  << [wbs_name |-> "Demo Project", wbs_short_name |-> "DEMO", proj_node_flag |-> "Y"],
     [wbs_name |-> "Foundations", wbs_short_name |-> "DEMO.1", proj_node_flag |-> "N"] >>

\* The sequences over S of length at most n.
SeqUpTo(S, n) == UNION {[1..k -> S] : k \in 0..n}

\* The name and the display code of the activity at position i of TASK.
WithIdentity(tasks) ==
  [i \in 1..Len(tasks) |->
     [k \in DOMAIN tasks[i] \cup {"task_name", "task_code"} |->
        IF k = "task_name" THEN "Activity " \o ToString(i)
        ELSE IF k = "task_code" THEN "A" \o ToString(10 * i)
        ELSE tasks[i][k]]]

NetIds == {1, 2}
NetFloats == {Num(-8), Num(100), Str("abc")}

\* The kinds and lags of the relationships: every kind, and with Finish-to-Start
\* and Start-to-Finish a lag that is missing, negative, positive or no number.
NetRelKinds ==
  {[pred_type |-> "PR_FS"],
   [pred_type |-> "PR_FS", lag_hr_cnt |-> Num(-8)],
   [pred_type |-> "PR_FS", lag_hr_cnt |-> Num(16)],
   [pred_type |-> "PR_FS", lag_hr_cnt |-> Str("abc")],
   [pred_type |-> "PR_SS"],
   [pred_type |-> "PR_FF", lag_hr_cnt |-> Num(16)],
   [pred_type |-> "PR_SF"],
   [pred_type |-> "PR_SF", lag_hr_cnt |-> Num(-8)]}

\* Activities of the network specification: an id and, or not, a total float.
NetTaskRows ==
  {[task_id |-> id] : id \in NetIds}
  \cup {[task_id |-> id, total_float_hr_cnt |-> f] : id \in NetIds, f \in NetFloats}

\* Relationships: the two endpoints with a kind and lag.
NetRelRows ==
  {[k \in DOMAIN kind \cup {"task_id", "pred_task_id"} |->
      IF k = "task_id" THEN t ELSE IF k = "pred_task_id" THEN p ELSE kind[k]]
     : kind \in NetRelKinds, t \in NetIds, p \in NetIds}

Required(tasks) ==
  [PROJECT |-> <<ProjectRow>>, PROJWBS |-> WbsRows, TASK |-> WithIdentity(tasks)]

\* tbls with one more table
WithTable(tbls, name, rows) ==
  [k \in DOMAIN tbls \cup {name} |-> IF k = name THEN rows ELSE tbls[k]]

CtxFloats == {Num(-8), Num(0), Num(100), Str("abc")}
CtxKinds == {<<"TK_Complete", "TT_Task">>, <<"TK_Active", "TT_Mile">>}
RsrcIds == {1, 2}

\* Activities of the context specification: a status, a type and, or not, a
\* total float.
CtxTaskRows ==
  {[status_code |-> k[1], task_type |-> k[2]] : k \in CtxKinds}
  \cup {[status_code |-> k[1], task_type |-> k[2], total_float_hr_cnt |-> f]
          : k \in CtxKinds, f \in CtxFloats}

\* Resource assignments: the resource's id and its name.
RsrcRows == {[rsrc_id |-> r, rsrc_name |-> "Crew " \o ToString(r)] : r \in RsrcIds}

\* The values handed to the formatters.
FmtValues ==
  {Num(n) : n \in (0 - MaxHours)..MaxHours}
  \cup {Str(s) : s \in {"abc", "", "16", "-16", "0", "4"}}
  \cup {NoneVal}

(***************************************************************************)
(* The calls.  Each action is one call of a function of app.py on the      *)
(* tables; Return hands the result to the caller.                          *)
(***************************************************************************)
Idle == [fn |-> "none"]
NoResult == [none |-> TRUE]

TaskData == tables["TASK"]
TaskPredData == IF "TASKPRED" \in DOMAIN tables THEN tables["TASKPRED"] ELSE << >>

FormatDuration ==
  /\ call = Idle
  /\ \E v \in FmtValues :
       /\ call' = [fn |-> "format_duration", arg |-> v]
       /\ ret' = Ok(format_duration(v))
  /\ UNCHANGED tables

FormatLag ==
  /\ call = Idle
  /\ \E v \in FmtValues :
       /\ call' = [fn |-> "format_lag", arg |-> v]
       /\ ret' = Ok(format_lag(v))
  /\ UNCHANGED tables

AnalyzeRelationships ==
  /\ call = Idle
  /\ \E task_id \in NetIds :
       /\ call' = [fn |-> "analyze_relationships", task_id |-> task_id]
       /\ ret' = Ok(analyze_relationships(task_id, TaskPredData, TaskLookup(TaskData)))
  /\ UNCHANGED tables

AnalyzeNetworkLogic ==
  /\ call = Idle
  /\ call' = [fn |-> "analyze_network_logic"]
  /\ ret' = analyze_network_logic(TaskData, TaskPredData)
  /\ UNCHANGED tables

\* The call of line 404: the lists of one activity and its raw total float.
GenerateRelationshipWarnings ==
  /\ call = Idle
  /\ \E i \in DOMAIN TaskData :
       LET task == TaskData[i]
           rels == analyze_relationships(Get(task, "task_id", NoneVal),
                                         TaskPredData, TaskLookup(TaskData))
           total_float == Get(task, "total_float_hr_cnt", Num(0))
       IN  /\ call' = [fn |-> "generate_relationship_warnings",
                       predecessors |-> rels[1], successors |-> rels[2],
                       total_float |-> total_float]
           /\ ret' = generate_relationship_warnings(rels[1], rels[2], total_float)
  /\ UNCHANGED tables

GenerateActivityNarrative ==
  /\ call = Idle
  /\ call' = [fn |-> "generate_activity_narrative"]
  /\ ret' = generate_activity_narrative(TaskData, tables)
  /\ UNCHANGED tables

GenerateSemanticScheduleContext ==
  /\ call = Idle
  /\ call' = [fn |-> "generate_semantic_schedule_context"]
  /\ ret' = generate_semantic_schedule_context(tables)
  /\ UNCHANGED tables

GenerateQaContext ==
  /\ call = Idle
  /\ call' = [fn |-> "generate_qa_context"]
  /\ ret' = generate_qa_context(tables)
  /\ UNCHANGED tables

Return ==
  /\ call # Idle
  /\ call' = Idle
  /\ ret' = NoResult
  /\ UNCHANGED tables

(***************************************************************************)
(* The specifications: the formatters on single values, the relationship   *)
(* functions on activities and relationships, the context builders on      *)
(* activities and resource assignments.                                    *)
(***************************************************************************)
InitFmt == tables = Required(<< >>) /\ call = Idle /\ ret = NoResult
NextFmt == FormatDuration \/ FormatLag \/ Return
SpecFmt == InitFmt /\ [][NextFmt]_vars

\* An upload without relationships may have no TASKPRED table at all.
InitNet ==
  /\ \E t \in SeqUpTo(NetTaskRows, MaxTasks) :
       \/ \E r \in SeqUpTo(NetRelRows, MaxRels) :
            tables = WithTable(Required(t), "TASKPRED", r)
       \/ tables = Required(t)
  /\ call = Idle
  /\ ret = NoResult
NextNet ==
  \/ AnalyzeRelationships
  \/ AnalyzeNetworkLogic
  \/ GenerateRelationshipWarnings
  \/ GenerateActivityNarrative
  \/ Return
SpecNet == InitNet /\ [][NextNet]_vars

\* TASKRSRC is there or not.
InitCtx ==
  /\ \E t \in SeqUpTo(CtxTaskRows, MaxCtxTasks) :
       \/ \E r \in SeqUpTo(RsrcRows, MaxRsrc) :
            tables = WithTable(Required(t), "TASKRSRC", r)
       \/ tables = Required(t)
  /\ call = Idle
  /\ ret = NoResult
NextCtx == GenerateSemanticScheduleContext \/ GenerateQaContext \/ Return
SpecCtx == InitCtx /\ [][NextCtx]_vars

(***************************************************************************)
(* The report-generation pass of an upload, lines 421-501 of the script.   *)
(* While a pass runs, call is the frame of the script: its position pc,    *)
(* whether the name tmp_path is bound, whether the reader can decode the   *)
(* uploaded bytes, whether a step has failed, and the exception on its way *)
(* to the handler.  ret is what the pass has left outside the script: the  *)
(* temporary files on disk, the elements on the page, and the exception    *)
(* that left the pass uncaught.  tables is what the reader decodes from    *)
(* the upload.  Whether the file system or the page refuses an operation   *)
(* is not decided by the script: those steps have both outcomes.           *)
(***************************************************************************)
MaxPassTasks == 1

TmpFile == "tmp.xer"
NoException == "none"

\* tbls without the table name
WithoutTable(tbls, name) == [k \in DOMAIN tbls \ {name} |-> tbls[k]]

\* Activities of the pass: an id, a status, a type and, or not, a total float.
PassTaskRows ==
  {[task_id |-> id, status_code |-> k[1], task_type |-> k[2]]
     : id \in NetIds, k \in CtxKinds}
  \cup {[task_id |-> id, status_code |-> k[1], task_type |-> k[2],
         total_float_hr_cnt |-> f]
          : id \in NetIds, k \in CtxKinds, f \in CtxFloats}

\* What an upload with the activities t may decode to: the required tables,
\* one of the required tables missing, or a PROJECT table without a row.
PassTables(t) ==
  LET full == Required(t)
  IN  {full,
       WithoutTable(full, "PROJECT"),
       WithoutTable(full, "PROJWBS"),
       WithoutTable(full, "TASK"),
       WithTable(full, "PROJECT", << >>)}

\* The values of the outcomes when each one returned, or the first one of them
\* that raised: statements run in order and the first exception ends them.
FirstRaise(outcomes) ==
  LET raised == {i \in DOMAIN outcomes : IsRaise(outcomes[i])}
  IN  IF raised = {} THEN Ok([i \in DOMAIN outcomes |-> outcomes[i].val])
      ELSE outcomes[CHOOSE i \in raised : \A j \in raised : i <= j]

\* Line 435: generate_activity_narrative(tables['TASK'].entries(), tables)
ActivityNarrativeOf(tbls) ==
  LET tasks == Entries(tbls, "TASK")
  IN  IF IsRaise(tasks) THEN tasks ELSE generate_activity_narrative(tasks.val, tbls)

\* Lines 433-439: the three narratives and the two contexts, or the first
\* exception raised on the way.  The project and the WBS narrative only read
\* fields with dict.get and raise nothing of their own.
GenerateAll(tbls) ==
  FirstRaise(<< FirstProject(tbls),
                Entries(tbls, "PROJWBS"),
                ActivityNarrativeOf(tbls),
                generate_semantic_schedule_context(tbls),
                generate_qa_context(tbls) >>)

InPass(pc) == call.fn = "upload" /\ call.pc = pc

\* The step at hand raises e: control goes to the except clause.
Fails(e) == call' = [call EXCEPT !.pc = "except", !.failed = TRUE, !.raised = e]

\* Line 421: a file was uploaded and the try block is entered.  No name of the
\* script is bound to the path of a temporary file yet.
Upload ==
  /\ call = Idle
  /\ \E readable \in BOOLEAN :
       call' = [fn |-> "upload", pc |-> "create", tmp_path |-> FALSE,
                readable |-> readable, failed |-> FALSE, raised |-> NoException]
  /\ ret' = [files |-> {}, page |-> << >>, uncaught |-> NoException]
  /\ UNCHANGED tables

\* Line 424: NamedTemporaryFile(delete=False) creates the file, or raises.
CreateTempFile ==
  /\ InPass("create")
  /\ \/ /\ call' = [call EXCEPT !.pc = "write"]
        /\ ret' = [ret EXCEPT !.files = @ \cup {TmpFile}]
     \/ /\ Fails("OSError")
        /\ UNCHANGED ret
  /\ UNCHANGED tables

\* Lines 425-426 and the end of the with block: the upload is written, tmp_path
\* is bound and the file is closed.  A failed write leaves the with block
\* before line 426; a failed close leaves it after.  The file stays on disk in
\* each case (delete=False).
WriteUpload ==
  /\ InPass("write")
  /\ \/ call' = [call EXCEPT !.pc = "decode", !.tmp_path = TRUE]
     \/ Fails("OSError")
     \/ call' = [call EXCEPT !.pc = "except", !.tmp_path = TRUE,
                             !.failed = TRUE, !.raised = "OSError"]
  /\ UNCHANGED <<tables, ret>>

\* Lines 429-430: XerReader(tmp_path) and to_dict() decode the file, or raise.
ReadXer ==
  /\ InPass("decode")
  /\ IF call.readable THEN call' = [call EXCEPT !.pc = "generate"]
                      ELSE Fails("ReaderError")
  /\ UNCHANGED <<tables, ret>>

\* Lines 433-439.
GenerateNarratives ==
  /\ InPass("generate")
  /\ LET all == GenerateAll(tables)
     IN  IF IsRaise(all) THEN Fails(all.exc)
         ELSE call' = [call EXCEPT !.pc = "display"]
  /\ UNCHANGED <<tables, ret>>

\* Lines 442-483: the document is put together and shown with its download
\* button and the box for additional context, or one of these calls raises.
DisplayNarrative ==
  /\ InPass("display")
  /\ \/ /\ call' = [call EXCEPT !.pc = "statistics"]
        /\ ret' = [ret EXCEPT !.page = Append(@, "narrative")]
     \/ /\ Fails("RenderError")
        /\ UNCHANGED ret
  /\ UNCHANGED tables

\* Lines 485-494: the three metrics, or a call that raises.
DisplayStatistics ==
  /\ InPass("statistics")
  /\ \/ /\ call' = [call EXCEPT !.pc = "finally"]
        /\ ret' = [ret EXCEPT !.page = Append(@, "statistics")]
     \/ /\ Fails("RenderError")
        /\ UNCHANGED ret
  /\ UNCHANGED tables

\* Lines 496-497: except Exception shows the error and the exception is handled.
HandleException ==
  /\ InPass("except")
  /\ call' = [call EXCEPT !.pc = "finally", !.raised = NoException]
  /\ ret' = [ret EXCEPT !.page = Append(@, "error")]
  /\ UNCHANGED tables

\* Lines 499-501: Path(tmp_path).unlink(missing_ok=True).  Reading tmp_path
\* raises NameError when line 426 was never reached; nothing catches it.
CleanUp ==
  /\ InPass("finally")
  /\ IF call.tmp_path
       THEN /\ call' = [call EXCEPT !.pc = "done"]
            /\ ret' = [ret EXCEPT !.files = @ \ {TmpFile}]
       ELSE /\ call' = [call EXCEPT !.pc = "aborted"]
            /\ ret' = [ret EXCEPT !.uncaught = "NameError"]
  /\ UNCHANGED tables

InitPass ==
  /\ \E t \in SeqUpTo(PassTaskRows, MaxPassTasks) : tables \in PassTables(t)
  /\ call = Idle
  /\ ret = NoResult
NextPass ==
  \/ Upload
  \/ CreateTempFile
  \/ WriteUpload
  \/ ReadXer
  \/ GenerateNarratives
  \/ DisplayNarrative
  \/ DisplayStatistics
  \/ HandleException
  \/ CleanUp
SpecPass == InitPass /\ [][NextPass]_vars

(***************************************************************************)
(* The properties.                                                         *)
(***************************************************************************)
Called(fn) == call.fn = fn

\* The positions in seq whose element satisfies P, and the one of them that
\* has k - 1 of them before it.
Positions(seq, P(_)) == {i \in DOMAIN seq : P(seq[i])}
Nth(S, k) == CHOOSE i \in S : Cardinality({j \in S : j < i}) = k - 1

\* Whether the value is a number float() reads, and that number.
Parses(v) == IsOk(Float(v))
Number(v) == Float(v).val

\* C1: with an empty TASK collection the semantic-context builder and the
\* Q&A-context builder both return, with a defined value in the average-float
\* and completion-percentage fields, instead of raising.
C1_EmptyTaskContextsReturn ==
  (TaskData = << >> /\ (Called("generate_semantic_schedule_context")
                        \/ Called("generate_qa_context")))
    => IsOk(ret)

\* C2: a lag or total float that does not parse as a number is never
\* propagated: the network analyzer, the anomaly detector and the activity
\* narrative renderer complete without raising on every dataset.
C2_MalformedNumbersNeverPropagate ==
  (Called("analyze_network_logic") \/ Called("generate_relationship_warnings")
     \/ Called("generate_activity_narrative"))
    => IsOk(ret)

\* The relationships of A as analyze_relationships is to return them: the
\* positions in TASKPRED whose field `own` is A, and the entry due for the
\* relationship at position i, whose other endpoint is the field `other`.
OwnPositions(A, own) == {i \in DOMAIN TaskPredData : TaskPredData[i][own] = A}
TasksWithId(id) == {j \in DOMAIN TaskData : TaskData[j].task_id = id}
RawKind(i) == Get(TaskPredData[i], "pred_type", "")
RawLag(i) == Get(TaskPredData[i], "lag_hr_cnt", Num(0))

\* entries is one entry per relationship of `own` = A, in input order, each
\* with the raw kind and lag of its relationship.
ListsExactly(entries, A, own) ==
  /\ Len(entries) = Cardinality(OwnPositions(A, own))
  /\ \A k \in DOMAIN entries :
       LET i == Nth(OwnPositions(A, own), k)
       IN  /\ entries[k].type = RawKind(i)
           /\ entries[k].lag = RawLag(i)

\* C3: analyze_relationships(A) returns as predecessors exactly the
\* relationships whose task_id is A and as successors exactly those whose
\* pred_task_id is A, in input order, one entry per relationship (repeated
\* edges are not merged); a self-referential relationship of A is in both lists.
C3_ExactPredecessorsAndSuccessors ==
  Called("analyze_relationships") =>
    /\ IsOk(ret)
    /\ ListsExactly(ret.val[1], call.task_id, "task_id")
    /\ ListsExactly(ret.val[2], call.task_id, "pred_task_id")
    /\ \A i \in DOMAIN TaskPredData :
         (TaskPredData[i].task_id = call.task_id
            /\ TaskPredData[i].pred_task_id = call.task_id)
           => /\ i \in OwnPositions(call.task_id, "task_id")
              /\ i \in OwnPositions(call.task_id, "pred_task_id")
              /\ Len(ret.val[1]) >= 1 /\ Len(ret.val[2]) >= 1

\* Witness of C3: the activity has a self-referential relationship and a
\* second, repeated, relationship, and both lists were returned.
C3_Witness ==
  /\ Called("analyze_relationships")
  /\ Len(TaskPredData) = 2
  /\ TaskPredData[1].task_id = call.task_id
  /\ TaskPredData[1].pred_task_id = call.task_id
  /\ TaskPredData[2] = TaskPredData[1]
  /\ Len(ret.val[1]) = 2
  /\ Len(ret.val[2]) = 2

\* The entry at position k of entries resolves the other endpoint of its
\* relationship: the placeholder when no activity has that id, the name and
\* code of the activity with that id otherwise.
ResolvesEndpoint(entries, A, own, other) ==
  \A k \in DOMAIN entries :
    LET i == Nth(OwnPositions(A, own), k)
        id == TaskPredData[i][other]
    IN  /\ TasksWithId(id) = {} =>
             /\ entries[k].name = "Unknown Task"
             /\ entries[k].code = ""
             /\ entries[k].type = RawKind(i)
             /\ entries[k].lag = RawLag(i)
        /\ TasksWithId(id) # {} =>
             \E j \in TasksWithId(id) :
               /\ entries[k].name = TaskData[j].task_name
               /\ entries[k].code = TaskData[j].task_code

\* C4: an endpoint id that resolves to no activity does not make
\* analyze_relationships fail: the entry carries the name "Unknown Task" and
\* an empty code with the raw kind and lag of the relationship; an id that
\* resolves gives the entry that activity's name and code.
C4_UnknownEndpointPlaceholder ==
  Called("analyze_relationships") =>
    /\ IsOk(ret)
    /\ ResolvesEndpoint(ret.val[1], call.task_id, "task_id", "pred_task_id")
    /\ ResolvesEndpoint(ret.val[2], call.task_id, "pred_task_id", "task_id")

\* Witness of C4: one predecessor is an unknown activity and one is known.
C4_Witness ==
  /\ Called("analyze_relationships")
  /\ Len(ret.val[1]) = 2
  /\ ret.val[1][1].name = "Unknown Task"
  /\ ret.val[1][1].code = ""
  /\ ret.val[1][1].lag = Num(-8)
  /\ ret.val[1][2].name = "Activity 1"
  /\ ret.val[1][2].code = "A10"

\* The total float analyze_network_logic reads for the activity at position i.
ReadFloat(i) == Get(TaskData[i], "total_float_hr_cnt", Num(0))
AllFloatsParse == \A i \in DOMAIN TaskData : Parses(ReadFloat(i))
AllLagsParse == \A i \in DOMAIN TaskPredData : Parses(RawLag(i))

TopologyKeys ==
  {"activities_single_pred", "activities_single_succ",
   "activities_multiple_pred", "activities_multiple_succ"}
RelationshipKeys ==
  {"relationships_with_lag", "relationships_with_negative_lag",
   "ss_relationships", "ff_relationships", "sf_relationships"}
FloatKeys == {"high_float_activities", "negative_float_activities"}

\* C5, as stated: for N activities and no relationships analyze_network_logic
\* returns activities_no_pred = activities_no_succ = N and every other count
\* is 0 (read here of the calls that return).
C5_Original ==
  (Called("analyze_network_logic") /\ TaskPredData = << >> /\ IsOk(ret)) =>
    /\ ret.val.activities_no_pred = Len(TaskData)
    /\ ret.val.activities_no_succ = Len(TaskData)
    /\ \A k \in TopologyKeys \cup RelationshipKeys \cup FloatKeys : ret.val[k] = 0

\* C5, amended: for N activities and no relationships analyze_network_logic
\* returns exactly when every total float that is present is a number, and
\* then total_activities = activities_no_pred = activities_no_succ = N, the
\* single / multiple counts and the relationship counts are 0, and the two
\* float counts are the numbers of activities with total float > 80 and < 0.
C5_NoRelationships ==
  (Called("analyze_network_logic") /\ TaskPredData = << >>) =>
    /\ IsOk(ret) <=> AllFloatsParse
    /\ IsOk(ret) =>
         /\ ret.val.total_activities = Len(TaskData)
         /\ ret.val.activities_no_pred = Len(TaskData)
         /\ ret.val.activities_no_succ = Len(TaskData)
         /\ \A k \in TopologyKeys \cup RelationshipKeys : ret.val[k] = 0
         /\ ret.val.high_float_activities
              = Cardinality({i \in DOMAIN TaskData : Number(ReadFloat(i)) > 80})
         /\ ret.val.negative_float_activities
              = Cardinality({i \in DOMAIN TaskData : Number(ReadFloat(i)) < 0})

\* Witness of C5: two activities without relationships, one with a total
\* float of 100 hours and one with none, and the high-float count is 1.
C5_Witness ==
  /\ Called("analyze_network_logic")
  /\ TaskPredData = << >>
  /\ Len(TaskData) = 2
  /\ ReadFloat(1) = Num(100)
  /\ "total_float_hr_cnt" \notin DOMAIN TaskData[2]
  /\ IsOk(ret)
  /\ ret.val.activities_no_pred = 2
  /\ ret.val.high_float_activities = 1

\* The number of relationships whose field `own` is the id of the activity at
\* position i.
Degree(i, own) == Cardinality(OwnPositions(TaskData[i].task_id, own))
CountWhere(P(_)) == Cardinality({i \in DOMAIN TaskData : P(i)})

\* C6: analyze_network_logic counts every activity in exactly one of the
\* predecessor classes none / single / multiple, by whether 0, 1 or more
\* relationships have its id as task_id, and in exactly one of the successor
\* classes by the relationships that have its id as pred_task_id; the three
\* predecessor counts, and the three successor counts, add up to
\* total_activities.
C6_ExactlyOneClass ==
  (Called("analyze_network_logic") /\ IsOk(ret)) =>
    LET m == ret.val
    IN  /\ m.activities_no_pred = CountWhere(LAMBDA i : Degree(i, "task_id") = 0)
        /\ m.activities_single_pred = CountWhere(LAMBDA i : Degree(i, "task_id") = 1)
        /\ m.activities_multiple_pred = CountWhere(LAMBDA i : Degree(i, "task_id") > 1)
        /\ m.activities_no_succ = CountWhere(LAMBDA i : Degree(i, "pred_task_id") = 0)
        /\ m.activities_single_succ = CountWhere(LAMBDA i : Degree(i, "pred_task_id") = 1)
        /\ m.activities_multiple_succ = CountWhere(LAMBDA i : Degree(i, "pred_task_id") > 1)
        /\ m.total_activities = Len(TaskData)
        /\ m.activities_no_pred + m.activities_single_pred + m.activities_multiple_pred
             = m.total_activities
        /\ m.activities_no_succ + m.activities_single_succ + m.activities_multiple_succ
             = m.total_activities

\* Witness of C6: one activity with two predecessor relationships, one of them
\* from itself, and one activity with none: counted as multiple and as none.
C6_Witness ==
  /\ Called("analyze_network_logic")
  /\ IsOk(ret)
  /\ Len(TaskData) = 2
  /\ Degree(1, "task_id") = 2
  /\ Degree(2, "task_id") = 0
  /\ Degree(2, "pred_task_id") = 1
  /\ ret.val.activities_multiple_pred = 1
  /\ ret.val.activities_no_pred = 1
  /\ ret.val.activities_no_succ = 0
  /\ ret.val.activities_single_succ = 2

\* The warnings due for the lists and the total float of a call, rule by rule.
IsNegativeLag(p) == Number(Get(p, "lag", Num(0))) < 0
NegativeLagWarning(p) == "Warning: Negative lag on relationship with " \o p.name
PositiveFloat(v) == Parses(v) /\ Number(v) > 0

DueWarnings(predecessors, successors, total_float) ==
  LET sf == Cardinality({i \in DOMAIN predecessors : predecessors[i].type = "PR_SF"})
  IN  Map(SelectSeq(predecessors, IsNegativeLag), NegativeLagWarning)
      \o (IF sf > 0
          THEN <<"Note: Activity has " \o ToString(sf)
                   \o " Start-to-Finish relationship(s), which are unusual">>
          ELSE << >>)
      \o (IF Len(predecessors) = 0 /\ PositiveFloat(total_float)
          THEN <<"Warning: Activity has no predecessors but has positive float">>
          ELSE << >>)
      \o (IF Len(successors) = 0 /\ PositiveFloat(total_float)
          THEN <<"Warning: Activity has no successors but has positive float">>
          ELSE << >>)

\* C7: generate_relationship_warnings emits every applicable warning in rule
\* order: one negative-lag warning per predecessor with lag < 0 in predecessor
\* order, then at most one Start-to-Finish note with the count of PR_SF
\* predecessors, then the no-predecessors warning iff there are no
\* predecessors and total float > 0, then the no-successors warning iff there
\* are no successors and total float > 0.  One predecessor at lag -8 with
\* positive float and no successors yields the negative-lag warning and the
\* no-successors warning.
C7_WarningsInRuleOrder ==
  Called("generate_relationship_warnings") =>
    /\ IsOk(ret) => ret.val = DueWarnings(call.predecessors, call.successors,
                                          call.total_float)
    /\ ((\A i \in DOMAIN call.predecessors : Parses(call.predecessors[i].lag))
          /\ Parses(call.total_float)) => IsOk(ret)
    /\ (/\ Len(call.predecessors) = 1
        /\ call.predecessors[1].lag = Num(-8)
        /\ call.predecessors[1].type # "PR_SF"
        /\ call.successors = << >>
        /\ PositiveFloat(call.total_float))
         => ret = Ok(<<NegativeLagWarning(call.predecessors[1]),
                       "Warning: Activity has no successors but has positive float">>)

\* Witness of C7: one predecessor at lag -8, a total float of 100 hours and no
\* successors, with the two warnings returned.
C7_Witness ==
  /\ Called("generate_relationship_warnings")
  /\ Len(call.predecessors) = 1
  /\ call.predecessors[1].lag = Num(-8)
  /\ call.successors = << >>
  /\ call.total_float = Num(100)
  /\ IsOk(ret)
  /\ Len(ret.val) = 2

\* A second case of C7: two predecessors at negative lag, both Start-to-Finish,
\* give two negative-lag warnings and one note.
C7_WitnessRepeated ==
  /\ Called("generate_relationship_warnings")
  /\ Len(call.predecessors) = 2
  /\ call.predecessors[1] = call.predecessors[2]
  /\ IsOk(ret)
  /\ Len(ret.val) = 3

\* The activities whose total float is present and a number <= 0.
CriticalPositions ==
  {i \in DOMAIN TaskData :
     /\ "total_float_hr_cnt" \in DOMAIN TaskData[i]
     /\ Number(TaskData[i].total_float_hr_cnt) <= 0}

\* C8: an activity is counted critical exactly when its total float is present
\* and <= 0, never when the float is missing: the count in the semantic
\* context's critical_path_description, the length of its schedule_risks, the
\* count in the Q&A context's what_is_driving_completion and the length of
\* which_activities_are_critical are all the number of such activities.
C8_CriticalCounts ==
  LET n == Cardinality(CriticalPositions)
  IN  /\ (Called("generate_semantic_schedule_context") /\ IsOk(ret)) =>
           /\ ret.val.timing_analysis.critical_path_description
                = "The schedule contains " \o ToString(n) \o " critical activities"
           /\ Len(ret.val.timing_analysis.schedule_risks) = n
      /\ (Called("generate_qa_context") /\ IsOk(ret)) =>
           /\ ret.val.timing_questions.what_is_driving_completion
                = "There are " \o ToString(n)
                    \o " critical activities driving project completion"
           /\ Len(ret.val.timing_questions.which_activities_are_critical) = n

\* Witness of C8: an activity without total float and one with total float 0;
\* the semantic context counts one critical activity.
C8_Witness ==
  /\ Called("generate_semantic_schedule_context")
  /\ Len(TaskData) = 2
  /\ "total_float_hr_cnt" \notin DOMAIN TaskData[1]
  /\ Get(TaskData[2], "total_float_hr_cnt", NoneVal) = Num(0)
  /\ IsOk(ret)
  /\ Len(ret.val.timing_analysis.schedule_risks) = 1

\* The same dataset in the Q&A context.
C8_WitnessQa ==
  /\ Called("generate_qa_context")
  /\ Len(TaskData) = 2
  /\ "total_float_hr_cnt" \notin DOMAIN TaskData[1]
  /\ Get(TaskData[2], "total_float_hr_cnt", NoneVal) = Num(-8)
  /\ IsOk(ret)
  /\ ret.val.timing_questions.which_activities_are_critical = <<"Activity 2">>

\* The rendering of h >= 0 hours that the claim describes: in days, h / 8 to
\* the nearest tenth, when h / 8 >= 1, in hours otherwise.  t tenths are nearest
\* to h / 8 when |10 h - 8 t| <= 4, a tie going to the even t.
NearestTenths(h) ==
  CHOOSE t \in 0..(2 * h) :
    /\ Abs(10 * h - 8 * t) <= 4
    /\ Abs(10 * h - 8 * t) = 4 => t % 2 = 0

Rendering(h) ==
  IF h >= 8
  THEN ToString(NearestTenths(h) \div 10) \o "." \o ToString(NearestTenths(h) % 10)
         \o " days"
  ELSE ToString(h) \o ".0 hours"

\* What C9 says of every numeric lag.
LagRule ==
  LET v == Number(call.arg)
  IN  /\ v = 0 => ret = Ok("no lag")
      /\ v < 0 => ret = Ok(Rendering(0 - v) \o " negative lag")
      /\ v > 0 => ret = Ok(Rendering(v) \o " lag")

\* C9, as stated: format_lag of a numeric lag v is "no lag" for v = 0, the
\* rendering of |v| and " negative lag" for v < 0, the rendering of v and
\* " lag" for v > 0, so that format_lag(-16) is "1.0 days negative lag" and
\* format_lag(16) is "1.0 days lag".
C9_Original ==
  (Called("format_lag") /\ Parses(call.arg)) =>
    /\ LagRule
    /\ Number(call.arg) = -16 => ret = Ok("1.0 days negative lag")
    /\ Number(call.arg) = 16 => ret = Ok("1.0 days lag")

\* C9, amended: the same rule, with format_lag(-16) = "2.0 days negative lag"
\* and format_lag(16) = "2.0 days lag" (16 hours are 2.0 days of 8 hours; the
\* lags of -8 and 8 hours are the ones rendered as 1.0 days).
C9_FormatLag ==
  (Called("format_lag") /\ Parses(call.arg)) =>
    /\ LagRule
    /\ Number(call.arg) = -16 => ret = Ok("2.0 days negative lag")
    /\ Number(call.arg) = 16 => ret = Ok("2.0 days lag")
    /\ Number(call.arg) = -8 => ret = Ok("1.0 days negative lag")
    /\ Number(call.arg) = 8 => ret = Ok("1.0 days lag")

\* Witness of C9: format_lag(-16) returned "2.0 days negative lag".
C9_Witness ==
  /\ Called("format_lag")
  /\ call.arg = Num(-16)
  /\ ret = Ok("2.0 days negative lag")

\* The resource sections of a returned context.
ResourceSections ==
  /\ Called("generate_semantic_schedule_context") =>
       /\ "execution_strategy" \in DOMAIN ret.val <=> "TASKRSRC" \in DOMAIN tables
       /\ {"project_identity", "schedule_structure", "timing_analysis"}
            \subseteq DOMAIN ret.val
  /\ Called("generate_qa_context") =>
       /\ "resource_questions" \in DOMAIN ret.val <=> "TASKRSRC" \in DOMAIN tables
       /\ {"timing_questions", "progress_questions"} \subseteq DOMAIN ret.val
       /\ "TASKRSRC" \in DOMAIN tables =>
            LET resources == tables["TASKRSRC"]
                n == IF Len(resources) < 5 THEN Len(resources) ELSE 5
                q == ret.val.resource_questions
            IN  /\ Len(q.what_are_key_resources) = n
                /\ \A i \in 1..n : q.what_are_key_resources[i] = resources[i].rsrc_name
                /\ q.how_many_resources
                     = "Schedule contains "
                         \o ToString(Cardinality({resources[i].rsrc_id : i \in DOMAIN resources}))
                         \o " unique resources"

\* C10: TASKRSRC is optional.  The semantic context has the execution_strategy
\* block and the Q&A context the resource_questions block iff TASKRSRC is among
\* the tables; without TASKRSRC both builders still return, without failing,
\* with all their other sections; with it, what_are_key_resources holds the
\* first min(5, n) names in order and the unique-resource count is the number
\* of distinct rsrc_id.
C10_OptionalResourceTable ==
  (Called("generate_semantic_schedule_context") \/ Called("generate_qa_context")) =>
    /\ "TASKRSRC" \notin DOMAIN tables => IsOk(ret)
    /\ IsOk(ret) => ResourceSections

\* The part of C10 that holds of the code: every context that is returned has
\* its sections as C10 says.
C10_WhenReturned ==
  ((Called("generate_semantic_schedule_context") \/ Called("generate_qa_context"))
     /\ IsOk(ret)) => ResourceSections


\* The pass is over: the finally clause has run.
PassEnded == call.fn = "upload" /\ call.pc \in {"done", "aborted"}
ErrorsShown == Cardinality({i \in DOMAIN ret.page : ret.page[i] = "error"})

\* What C11 asks of a pass that is over: no temporary file is left on disk,
\* the cleanup raised nothing, and a pass that failed shows one error message.
Released ==
  /\ ret.files = {}
  /\ ret.uncaught = NoException
  /\ call.failed => ErrorsShown = 1

\* C11: on every path of a report-generation pass (creating or writing the
\* temporary file fails, decoding fails, a required table is missing, rendering
\* fails, or the pass completes) the pass ends with no temporary file left
\* behind, the cleanup raises no new failure, and a failure of the pass is
\* shown as a single error message.
C11_TempFileReleased == PassEnded => Released

\* C11 on the paths that reach line 426: once tmp_path is bound the temporary
\* file is removed, the cleanup raises nothing, and a failure shows one error
\* message and a completed pass none.
C11_ReleasedOncePathBound ==
  PassEnded /\ call.tmp_path =>
    /\ Released
    /\ call.pc = "done"
    /\ ~call.failed => ErrorsShown = 0

\* C11 on the paths that leave the with block before line 426: the cleanup
\* raises NameError, and a failed write leaves the temporary file on disk.
C11_CleanupRaisesBeforePathBound ==
  PassEnded /\ ~call.tmp_path =>
    /\ call.failed
    /\ call.pc = "aborted"
    /\ ret.uncaught = "NameError"


\* The lists analyze_relationships returns for the activity at position i of
\* TASK: [1] its predecessors, [2] its successors.
ListsOf(i) ==
  analyze_relationships(TaskData[i].task_id, TaskPredData, TaskLookup(TaskData))

\* The class of an activity whose list has n entries.
ClassOfLength(n, side) ==
  IF n = 0 THEN "activities_no_" \o side
  ELSE IF n = 1 THEN "activities_single_" \o side
  ELSE "activities_multiple_" \o side

Classes(side) == {ClassOfLength(n, side) : n \in 0..2}

\* The counts of the analyzer's loop over the relationships.
RelCounts ==
  rel_pass(TaskPredData, 1,
           [metrics |-> InitialMetrics(TaskData),
            pred_count |-> << >>, succ_count |-> << >>])

\* The analyzer's loop over the relationships ends, and its loop over the
\* activities puts each activity in the class of the length of its list.
ClassesAgree ==
  /\ IsOk(RelCounts)
  /\ \A i \in DOMAIN TaskData :
       /\ PredClass(RelCounts.val.pred_count, TaskData[i].task_id)
            = ClassOfLength(Len(ListsOf(i)[1]), "pred")
       /\ SuccClass(RelCounts.val.succ_count, TaskData[i].task_id)
            = ClassOfLength(Len(ListsOf(i)[2]), "succ")

\* Each count of the metrics m is the number of activities whose list has the
\* length of that class.
CountsAgree(m) ==
  /\ \A c \in Classes("pred") :
       m[c] = CountWhere(LAMBDA i : ClassOfLength(Len(ListsOf(i)[1]), "pred") = c)
  /\ \A c \in Classes("succ") :
       m[c] = CountWhere(LAMBDA i : ClassOfLength(Len(ListsOf(i)[2]), "succ") = c)

\* The number of blocks of the narrative n that carry the note, and whether the
\* header of n has the line of this title with this count.
BlocksWith(n, note) ==
  Cardinality({b \in DOMAIN n.blocks :
                 \E l \in DOMAIN n.blocks[b] : n.blocks[b][l] = note})
HeaderHas(n, title, count) ==
  \E l \in DOMAIN n.summary : n.summary[l] = title \o ToString(count)

HeaderAgreesWithNotes(n) ==
  /\ HeaderHas(n, "- Activities without predecessors: ", BlocksWith(n, StartNote))
  /\ HeaderHas(n, "- Activities without successors: ", BlocksWith(n, FinishNote))
  /\ Len(n.blocks) = Len(TaskData)

\* C12: on every input with numeric lags the analyzer and the indexer agree.
\* For each activity, analyze_network_logic counts it as having no, a single or
\* multiple predecessors exactly when analyze_relationships returns 0, 1 or
\* more than 1 predecessors for its task_id, and likewise for successors.  So
\* on the records of the data model (lags as here, total floats numeric or
\* absent) both functions return, each count of the analyzer is the number of
\* activities whose list has that length, and in the narrative the header's
\* count of activities without predecessors is the number of blocks with the
\* Start note and its count without successors the number with the Finish
\* note.  Unknown ids, duplicated and self-referential relationships included.
C12_AnalyzerAgreesWithIndexer ==
  AllLagsParse =>
    /\ ClassesAgree
    /\ AllFloatsParse =>
         /\ Called("analyze_network_logic") => IsOk(ret) /\ CountsAgree(ret.val)
         /\ Called("generate_activity_narrative") =>
              IsOk(ret) /\ HeaderAgreesWithNotes(ret.val)

\* C12 for every call that returns, whatever the total floats: the counts
\* that analyze_network_logic returns agree with the indexer, and a narrative
\* that is returned has header counts equal to the numbers of blocks with the
\* Start and the Finish note.
C12_AgreeWhenReturned ==
  /\ Called("analyze_network_logic") /\ IsOk(ret) => CountsAgree(ret.val)
  /\ Called("generate_activity_narrative") /\ IsOk(ret) => HeaderAgreesWithNotes(ret.val)

\* C12: with numeric lags the two functions fail to return only on a total
\* float that is no number, with the ValueError of float().
C12_RaiseOnlyOnFloat ==
  (AllLagsParse /\ IsRaise(ret)
     /\ (Called("analyze_network_logic") \/ Called("generate_activity_narrative")))
    => ~AllFloatsParse /\ ret = Raise("ValueError")

\* Witness of C12: two activities of one id and a duplicated relationship to it
\* from an id that is no activity.  The narrative's header counts two
\* activities without predecessors and none without successors, and both
\* blocks carry the Start note and none the Finish note.
C12_Witness ==
  /\ Called("generate_activity_narrative")
  /\ IsOk(ret)
  /\ Len(TaskData) = 2
  /\ TaskData[1].task_id = TaskData[2].task_id
  /\ Len(TaskPredData) = 2
  /\ TaskPredData[1] = TaskPredData[2]
  /\ TaskPredData[1].pred_task_id = TaskData[1].task_id
  /\ TasksWithId(TaskPredData[1].task_id) = {}
  /\ BlocksWith(ret.val, StartNote) = 2
  /\ BlocksWith(ret.val, FinishNote) = 0
  /\ HeaderHas(ret.val, "- Activities without predecessors: ", 2)
  /\ HeaderHas(ret.val, "- Activities without successors: ", 0)

\* Witness of C12 with a relationship from an activity to itself, twice: the
\* analyzer counts it with multiple predecessors and multiple successors, the
\* other activity with none.
C12_WitnessSelf ==
  /\ Called("analyze_network_logic")
  /\ IsOk(ret)
  /\ Len(TaskData) = 2
  /\ Len(TaskPredData) = 2
  /\ \A i \in DOMAIN TaskPredData :
       /\ TaskPredData[i].task_id = TaskData[1].task_id
       /\ TaskPredData[i].pred_task_id = TaskData[1].task_id
  /\ TaskData[2].task_id # TaskData[1].task_id
  /\ Len(ListsOf(1)[1]) = 2 /\ Len(ListsOf(1)[2]) = 2
  /\ ret.val.activities_multiple_pred = 1 /\ ret.val.activities_multiple_succ = 1
  /\ ret.val.activities_no_pred = 1 /\ ret.val.activities_no_succ = 1

====
